---- MODULE Spec2Model ----
(***************************************************************************)
(* VBoxTabs Manager: the window embedding and lifecycle manager of         *)
(* src/VBoxTabs-Manager.py (WindowsWindowManager, VBoxTab, VirtualBoxTabs).*)
(*                                                                         *)
(* Foreign windows are owned by other processes; the program only sees     *)
(* them through the win32 calls of WindowsWindowManager.  A style bitmask  *)
(* is modelled as the set of its bit positions (0x40000000 is {30}), so    *)
(* that &, | and ~ are intersection, union and complement.  The show state *)
(* of a window (IsWindowVisible / ShowWindow) is kept apart from the style *)
(* word the code reads with GetWindowLong.                                 *)
(***************************************************************************)
EXTENDS Integers, Sequences, FiniteSets, TLC

VARIABLES
    win,                        \* the desktop: foreign window handle -> its OS state
    tabs,                       \* VirtualBoxTabs.tabs: hwnd -> VBoxTab
    pages,                      \* VirtualBoxTabs.tab_widget: hwnd -> number of pages showing a tab of hwnd
    manually_detached_windows,  \* VirtualBoxTabs.manually_detached_windows
    settings,                   \* VirtualBoxTabs.settings (the two auto-attach switches)
    is_picking_window,          \* VirtualBoxTabs.is_picking_window
    picker_timer,               \* VirtualBoxTabs.picker_timer is running
    pending,                    \* QTimer.singleShot(200, cleanup_closed_tab(hwnd)) not yet fired: hwnd -> count
    doomed,                     \* containers passed to deleteLater(), not yet destroyed by the event loop
    closed,                     \* closeEvent has been accepted
    phase,                      \* style round trip and renaming only: how far it has got
    pre,                        \* style round trip only: the window's state before the attach
    wm_found_windows,           \* WindowsWindowManager.found_windows (followed in the enumeration only)
    custom_tab_names            \* VirtualBoxTabs.custom_tab_names (followed in the renaming only)

vars == <<win, tabs, pages, manually_detached_windows, settings, is_picking_window,
          picker_timer, pending, doomed, closed, phase, pre,
          wm_found_windows, custom_tab_names>>

----
\* Bounds of the model.
NumWin == 1
MaxPending == 1

Hwnds == 1..NumWin
NoParent == 0
MainHwnd == NumWin + 1
Container(hwnd) == NumWin + 1 + hwnd
Containers == {Container(h) : h \in Hwnds}

----
\* Window styles (WindowsWindowManager.__init__).
AllBits == 0..31
WS_CHILD == {30}
WS_CAPTION == {22, 23}
WS_THICKFRAME == {18}
WS_MINIMIZEBOX == {17}
WS_MAXIMIZEBOX == {16}
WS_SYSMENU == {19}
BitAnd(a, b) == a \cap b
BitOr(a, b) == a \cup b
BitNot(a) == AllBits \ a
FrameMask == BitOr(WS_CAPTION, BitOr(WS_THICKFRAME, BitOr(WS_MINIMIZEBOX, BitOr(WS_MAXIMIZEBOX, WS_SYSMENU))))

\* Styles foreign top-level windows are created with: the windows the
\* enumeration knows are framed overlapped windows (with WS_CLIPSIBLINGS, bit
\* 26), any other window is a frameless popup (WS_POPUP, bit 31).
OverlappedStyle == FrameMask \cup {26}
PopupStyle == {31}

\* Sizes: a window's own size, and the client area of a tab's container.
OwnSize == [w |-> 640, h |-> 480]
HostSize == [w |-> 800, h |-> 600]
BigSize == [w |-> 1024, h |-> 768]
HostSizes == {HostSize, BigSize}

\* What _enum_windows_callback makes of a window's title and process.
WinClasses == {"VirtualBox", "VirtualBox Manager", "Hyper-V", "none"}

None == <<>>
Some(x) == <<x>>

DeadWin == [alive |-> FALSE, class |-> "none", style |-> {}, parent |-> NoParent,
            visible |-> FALSE, size |-> OwnSize]
NewWin(class) == [alive |-> TRUE, class |-> class,
                  style |-> IF class = "none" THEN PopupStyle ELSE OverlappedStyle,
                  parent |-> NoParent, visible |-> TRUE, size |-> OwnSize]

\* The part of the state the handlers read and write, with the native calls
\* the running handler has issued so far.  dying holds the windows that their
\* process destroys while the handler runs, between attach_window's IsWindow
\* and its native calls; raises tells whether a native call on a destroyed
\* window raises pywintypes.error or fails silently, and raised whether an
\* exception has left the handler.  Handlers run with dying empty unless a
\* property says otherwise.
Cur == [win |-> win, tabs |-> tabs, pages |-> pages, md |-> manually_detached_windows,
        settings |-> settings, doomed |-> doomed, calls |-> <<>>,
        dying |-> {}, raises |-> FALSE, raised |-> FALSE,
        is_picking_window |-> is_picking_window, picker_timer |-> picker_timer,
        custom_tab_names |-> custom_tab_names]

\* The handler state with the given session names.
WithNames(s, names) == [s EXCEPT !.custom_tab_names = names]

WithFault(s, dying, raises) == [s EXCEPT !.dying = dying, !.raises = raises]

Call(fn, hwnd, arg) == [fn |-> fn, hwnd |-> hwnd, arg |-> arg]

----
\* WindowsWindowManager

is_window(s, hwnd) == hwnd \in Hwnds /\ s.win[hwnd].alive

set_window_parent(s, hwnd, parent_hwnd) ==
    LET style == s.win[hwnd].style
        original_details == [style |-> style, parent |-> s.win[hwnd].parent]
        new_style == BitOr(BitAnd(style, BitNot(FrameMask)), WS_CHILD)
    IN  [st |-> [s EXCEPT !.win[hwnd].style = new_style,
                          !.win[hwnd].parent = parent_hwnd,
                          !.calls = @ \o << Call("SetWindowLong", hwnd, new_style),
                                            Call("SetParent", hwnd, parent_hwnd),
                                            Call("SetWindowPos", hwnd, "FRAMECHANGED") >>],
         ret |-> original_details]

\* A restore that clears the child bit and puts no frame bit back.
restore_window_style_no_frame(s, hwnd, original_details) ==
    IF ~is_window(s, hwnd) THEN s
    ELSE LET new_style == BitAnd(s.win[hwnd].style, BitNot(WS_CHILD))
         IN  [s EXCEPT !.win[hwnd].style = new_style,
                       !.win[hwnd].parent = original_details.parent,
                       !.win[hwnd].visible = TRUE,
                       !.calls = @ \o << Call("SetWindowLong", hwnd, new_style),
                                         Call("SetParent", hwnd, original_details.parent),
                                         Call("SetWindowPos", hwnd, "FRAMECHANGED"),
                                         Call("ShowWindow", hwnd, "SW_SHOW") >>]

restore_window_style(s, hwnd, original_details) ==
    IF ~is_window(s, hwnd) THEN s
    ELSE LET current_style == s.win[hwnd].style
             style_to_restore == original_details.style
             new_style == BitOr(BitAnd(current_style, BitNot(WS_CHILD)),
                                BitAnd(style_to_restore, FrameMask))
         IN  [s EXCEPT !.win[hwnd].style = new_style,
                       !.win[hwnd].parent = original_details.parent,
                       !.win[hwnd].visible = TRUE,
                       !.calls = @ \o << Call("SetWindowLong", hwnd, new_style),
                                         Call("SetParent", hwnd, original_details.parent),
                                         Call("SetWindowPos", hwnd, "FRAMECHANGED"),
                                         Call("ShowWindow", hwnd, "SW_SHOW") >>]

\* win32gui.GetParent: a container widget sits inside the main window.
GetParent(s, hwnd) ==
    IF hwnd \in Hwnds THEN (IF s.win[hwnd].alive THEN s.win[hwnd].parent ELSE NoParent)
    ELSE IF hwnd \in Containers THEN MainHwnd
    ELSE NoParent

RECURSIVE get_toplevel_parent(_, _)
get_toplevel_parent(s, hwnd) ==
    IF GetParent(s, hwnd) # NoParent THEN get_toplevel_parent(s, GetParent(s, hwnd)) ELSE hwnd

\* EnumWindows visits the top-level windows of the desktop.
TopLevel(s, hwnd) == s.win[hwnd].alive /\ BitAnd(s.win[hwnd].style, WS_CHILD) = {}

RECURSIVE SortedSeq(_)
SortedSeq(S) ==
    IF S = {} THEN <<>>
    ELSE LET m == CHOOSE x \in S : \A y \in S : x <= y IN <<m>> \o SortedSeq(S \ {m})

\* A window_info is kept as its hwnd and its type; the title is recorded with
\* the type and goes wherever the type goes.
find_embeddable_windows(s) ==
    LET hit == {h \in Hwnds : TopLevel(s, h) /\ s.win[h].visible /\ s.win[h].class # "none"}
        order == SortedSeq(hit)
    IN  [i \in 1..Len(order) |->
            [hwnd |-> order[i], type |-> s.win[order[i]].class]]

----
\* VBoxTab

VBoxTab(window_info) ==
    [window_info |-> window_info, orig_win_details |-> None, attached |-> FALSE,
     detached_manually |-> FALSE, csize |-> HostSize]

\* The rectangle MoveWindow is given for a container of the given size.
Rect(size) == [x |-> 0, y |-> 0, w |-> size.w, h |-> size.h]

\* A resize that does not look at the attached flag.
resize_embedded_window_unguarded(s, hwnd) ==
    IF is_window(s, hwnd)
    THEN [s EXCEPT !.win[hwnd].size = s.tabs[hwnd].csize,
                   !.calls = @ \o << Call("MoveWindow", hwnd, Rect(s.tabs[hwnd].csize)) >>]
    ELSE s

resize_embedded_window(s, hwnd) ==
    IF s.tabs[hwnd].attached /\ is_window(s, hwnd)
    THEN [s EXCEPT !.win[hwnd].size = s.tabs[hwnd].csize,
                   !.calls = @ \o << Call("MoveWindow", hwnd, Rect(s.tabs[hwnd].csize)) >>]
    ELSE s

\* The layout has given the container its new size when resizeEvent runs.
resizeEvent(s, hwnd, size) ==
    resize_embedded_window([s EXCEPT !.tabs[hwnd].csize = size], hwnd)

\* set_window_parent on a window destroyed after the IsWindow check: nothing
\* catches the error if a call raises; if none does, the reads give 0.
set_window_parent_gone(s, hwnd) ==
    LET s0 == [s EXCEPT !.win[hwnd] = DeadWin, !.dying = @ \ {hwnd}]
    IN  IF s.raises
        THEN [s0 EXCEPT !.raised = TRUE]
        ELSE [s0 EXCEPT !.tabs[hwnd].orig_win_details = Some([style |-> {}, parent |-> NoParent]),
                        !.tabs[hwnd].attached = TRUE,
                        !.tabs[hwnd].detached_manually = FALSE]

\* An attach that does not ask IsWindow first.
attach_window_unchecked(s, hwnd) ==
    IF s.tabs[hwnd].attached THEN s
    ELSE LET r == set_window_parent(s, hwnd, Container(hwnd))
             s1 == [r.st EXCEPT !.tabs[hwnd].orig_win_details = Some(r.ret)]
             s2 == resize_embedded_window(s1, hwnd)
         IN  [s2 EXCEPT !.tabs[hwnd].attached = TRUE,
                        !.tabs[hwnd].detached_manually = FALSE]

\* An attach that does not look at the attached flag and captures again.
attach_window_recapture(s, hwnd) ==
    IF ~is_window(s, hwnd) THEN s
    ELSE LET r == set_window_parent(s, hwnd, Container(hwnd))
             s1 == [r.st EXCEPT !.tabs[hwnd].orig_win_details = Some(r.ret)]
             s2 == resize_embedded_window(s1, hwnd)
         IN  [s2 EXCEPT !.tabs[hwnd].attached = TRUE,
                        !.tabs[hwnd].detached_manually = FALSE]

attach_window(s, hwnd) ==
    IF s.tabs[hwnd].attached \/ ~is_window(s, hwnd) THEN s
    ELSE IF hwnd \in s.dying THEN set_window_parent_gone(s, hwnd)
    ELSE LET r == set_window_parent(s, hwnd, Container(hwnd))
             s1 == [r.st EXCEPT !.tabs[hwnd].orig_win_details = Some(r.ret)]
             s2 == resize_embedded_window(s1, hwnd)
         IN  [s2 EXCEPT !.tabs[hwnd].attached = TRUE,
                        !.tabs[hwnd].detached_manually = FALSE]

\* A detach that does not look at the attached flag.
detach_window_unguarded(s, hwnd) ==
    IF s.tabs[hwnd].orig_win_details = None \/ ~is_window(s, hwnd)
    THEN s
    ELSE LET s1 == restore_window_style(s, hwnd, s.tabs[hwnd].orig_win_details[1])
         IN  [s1 EXCEPT !.tabs[hwnd].attached = FALSE,
                        !.tabs[hwnd].detached_manually = TRUE]

detach_window(s, hwnd) ==
    IF ~s.tabs[hwnd].attached \/ s.tabs[hwnd].orig_win_details = None \/ ~is_window(s, hwnd)
    THEN s
    ELSE LET s1 == restore_window_style(s, hwnd, s.tabs[hwnd].orig_win_details[1])
         IN  [s1 EXCEPT !.tabs[hwnd].attached = FALSE,
                        !.tabs[hwnd].detached_manually = TRUE]

----
\* VirtualBoxTabs

\* QWidget.deleteLater: the tab and its container are destroyed when control
\* returns to the event loop.
deleteLater(s, hwnd) == [s EXCEPT !.doomed = @ \cup {hwnd}]

RemoveKey(f, k) == [x \in DOMAIN f \ {k} |-> f[x]]
PutKey(f, k, v) == [x \in DOMAIN f \cup {k} |-> IF x = k THEN v ELSE f[x]]

AutoAttachEnabled(s, win_type) ==
    IF win_type = "VirtualBox" THEN s.settings.auto_attach
    ELSE IF win_type = "VirtualBox Manager" THEN s.settings.attach_vbox_manager
    ELSE FALSE

\* The decision without the per-category automatic rule.
ShouldAttach_no_auto(s, window_info, force_attach, is_manual_attach_all) ==
    force_attach \/ is_manual_attach_all

ShouldAttach(s, window_info, force_attach, is_manual_attach_all) ==
    force_attach \/ is_manual_attach_all
        \/ (AutoAttachEnabled(s, window_info.type) /\ window_info.hwnd \notin s.md)

\* An add that leaves the manually-detached set as it is.
add_tab_for_window_keeps_md(s, window_info, force_attach, is_manual_attach_all) ==
    LET hwnd == window_info.hwnd IN
    IF hwnd \in DOMAIN s.tabs /\ s.pages[hwnd] > 0 THEN s
    ELSE LET should_attach == ShouldAttach(s, window_info, force_attach, is_manual_attach_all)
             s1 == [s EXCEPT !.tabs = PutKey(@, hwnd, VBoxTab(window_info)),
                             !.pages[hwnd] = @ + 1]
         IN  IF should_attach THEN attach_window(s1, hwnd) ELSE s1

\* An add that does not look the window up in the registry first.
add_tab_for_window_no_lookup(s, window_info, force_attach, is_manual_attach_all) ==
    LET hwnd == window_info.hwnd
        was_manually_detached == hwnd \in s.md
        should_attach == ShouldAttach(s, window_info, force_attach, is_manual_attach_all)
        s1 == [s EXCEPT !.tabs = PutKey(@, hwnd, VBoxTab(window_info)),
                        !.pages[hwnd] = @ + 1]
    IN  IF should_attach
        THEN attach_window([s1 EXCEPT !.md = IF was_manually_detached THEN @ \ {hwnd} ELSE @],
                           hwnd)
        ELSE s1

add_tab_for_window(s, window_info, force_attach, is_manual_attach_all) ==
    LET hwnd == window_info.hwnd IN
    IF hwnd \in DOMAIN s.tabs /\ s.pages[hwnd] > 0 THEN s
    ELSE LET was_manually_detached == hwnd \in s.md
             should_attach == ShouldAttach(s, window_info, force_attach, is_manual_attach_all)
             s1 == [s EXCEPT !.tabs = PutKey(@, hwnd, VBoxTab(window_info)),
                             !.pages[hwnd] = @ + 1]
         IN  IF should_attach
             THEN attach_window([s1 EXCEPT !.md = IF was_manually_detached THEN @ \ {hwnd} ELSE @],
                                hwnd)
             ELSE s1

\* A cleanup that keeps the tab of a window that is still there.
cleanup_closed_tab_if_gone(s, hwnd) ==
    IF hwnd \in DOMAIN s.tabs /\ ~is_window(s, hwnd)
    THEN deleteLater([s EXCEPT !.pages[hwnd] = IF @ > 0 THEN @ - 1 ELSE @,
                               !.tabs = RemoveKey(@, hwnd),
                               !.md = @ \ {hwnd},
                               !.custom_tab_names = RemoveKey(@, hwnd)],
                     hwnd)
    ELSE s

\* A cleanup that does not ask whether the window is tracked.
cleanup_closed_tab_unguarded(s, hwnd) ==
    deleteLater([s EXCEPT !.pages[hwnd] = IF @ > 0 THEN @ - 1 ELSE @,
                          !.tabs = RemoveKey(@, hwnd),
                          !.md = @ \ {hwnd},
                          !.custom_tab_names = RemoveKey(@, hwnd)],
                hwnd)

cleanup_closed_tab(s, hwnd) ==
    IF hwnd \in DOMAIN s.tabs
    THEN deleteLater([s EXCEPT !.pages[hwnd] = IF @ > 0 THEN @ - 1 ELSE @,
                               !.tabs = RemoveKey(@, hwnd),
                               !.md = @ \ {hwnd},
                               !.custom_tab_names = RemoveKey(@, hwnd)],
                     hwnd)
    ELSE s

\* A first loop that collects every tracked window the enumeration lacks,
\* embedded windows included.
RECURSIVE refresh_tabs_gc_unlisted(_, _, _)
refresh_tabs_gc_unlisted(s, items, current) ==
    IF items = <<>> THEN s
    ELSE LET hwnd == Head(items)
             s1 == IF hwnd \notin current THEN cleanup_closed_tab(s, hwnd) ELSE s
         IN  refresh_tabs_gc_unlisted(s1, Tail(items), current)

\* A first loop that collects nothing.
refresh_tabs_gc_skipped(s, items, current) == s

\* refresh_tabs, first loop: tracked windows that are gone.
RECURSIVE refresh_tabs_gc(_, _, _)
refresh_tabs_gc(s, items, current) ==
    IF items = <<>> THEN s
    ELSE LET hwnd == Head(items)
             s1 == IF hwnd \notin current /\ ~is_window(s, hwnd)
                   THEN cleanup_closed_tab(s, hwnd) ELSE s
         IN  refresh_tabs_gc(s1, Tail(items), current)

\* A second loop that overwrites a tracked tab's window_info with the fresh one.
refresh_tabs_one_reclassify(s, window_info, is_attach_all_request) ==
    LET hwnd == window_info.hwnd IN
    IF hwnd \in DOMAIN s.tabs
    THEN IF is_attach_all_request /\ hwnd \in s.md
         THEN LET s1 == [s EXCEPT !.md = @ \ {hwnd}]
              IN  IF ~s1.tabs[hwnd].attached THEN attach_window(s1, hwnd) ELSE s1
         ELSE [s EXCEPT !.tabs[hwnd].window_info = window_info]
    ELSE IF hwnd \in s.md /\ ~is_attach_all_request THEN s
    ELSE IF window_info.type = "VirtualBox Manager" /\ ~s.settings.attach_vbox_manager
            /\ ~is_attach_all_request THEN s
    ELSE add_tab_for_window(s, window_info, is_attach_all_request, is_attach_all_request)

\* refresh_tabs, second loop: one window of the enumeration.
refresh_tabs_one(s, window_info, is_attach_all_request) ==
    LET hwnd == window_info.hwnd IN
    IF hwnd \in DOMAIN s.tabs
    THEN IF is_attach_all_request /\ hwnd \in s.md
         THEN LET s1 == [s EXCEPT !.md = @ \ {hwnd}]
              IN  IF ~s1.tabs[hwnd].attached THEN attach_window(s1, hwnd) ELSE s1
         ELSE s
    ELSE IF hwnd \in s.md /\ ~is_attach_all_request THEN s
    ELSE IF window_info.type = "VirtualBox Manager" /\ ~s.settings.attach_vbox_manager
            /\ ~is_attach_all_request THEN s
    ELSE add_tab_for_window(s, window_info, is_attach_all_request, is_attach_all_request)

RECURSIVE refresh_tabs_found(_, _, _)
refresh_tabs_found(s, found_windows, is_attach_all_request) ==
    IF found_windows = <<>> \/ s.raised THEN s
    ELSE refresh_tabs_found(refresh_tabs_one(s, Head(found_windows), is_attach_all_request),
                            Tail(found_windows), is_attach_all_request)

current_hwnds(found_windows) == {found_windows[i].hwnd : i \in DOMAIN found_windows}

\* A pass that takes every trigger for the attach-all button.
refresh_tabs_always_all(s, is_attach_all_request) ==
    LET found_windows == find_embeddable_windows(s)
        s1 == refresh_tabs_gc(s, SortedSeq(DOMAIN s.tabs), current_hwnds(found_windows))
    IN  refresh_tabs_found(s1, found_windows, TRUE)

\* A pass that never sees the attach-all button as its sender.
refresh_tabs_never_all(s, is_attach_all_request) ==
    LET found_windows == find_embeddable_windows(s)
        s1 == refresh_tabs_gc(s, SortedSeq(DOMAIN s.tabs), current_hwnds(found_windows))
    IN  refresh_tabs_found(s1, found_windows, FALSE)

refresh_tabs(s, is_attach_all_request) ==
    LET found_windows == find_embeddable_windows(s)
        s1 == refresh_tabs_gc(s, SortedSeq(DOMAIN s.tabs), current_hwnds(found_windows))
    IN  refresh_tabs_found(s1, found_windows, is_attach_all_request)

detach_tab(s, hwnd) ==
    LET s1 == detach_window(s, hwnd)
        s2 == [s1 EXCEPT !.md = @ \cup {hwnd},
                         !.pages[hwnd] = @ - 1,
                         !.tabs = RemoveKey(@, hwnd)]
    IN  deleteLater(s2, hwnd)

\* A shutdown that leaves the handles as they are.
closeEvent_loop_skipped(s, items) == s

RECURSIVE closeEvent_loop(_, _)
closeEvent_loop(s, items) ==
    IF items = <<>> THEN s
    ELSE closeEvent_loop(detach_window(s, Head(items)), Tail(items))

closeEvent(s) == closeEvent_loop(s, SortedSeq(DOMAIN s.tabs))

----
\* The state machine.

Install(s) ==
    /\ win' = s.win
    /\ tabs' = s.tabs
    /\ pages' = s.pages
    /\ manually_detached_windows' = s.md
    /\ doomed' = s.doomed


Total(f) == LET RECURSIVE Sum(_)
                Sum(S) == IF S = {} THEN 0
                          ELSE LET x == CHOOSE y \in S : TRUE IN f[x] + Sum(S \ {x})
            IN  Sum(DOMAIN f)

\* The application handles events only while it is open, and the event loop
\* runs deferred deletions before it delivers the next timer or input event.
Ready == ~closed /\ doomed = {}

Desktops == [Hwnds -> {DeadWin} \cup {NewWin(c) : c \in WinClasses}]
SettingsValues == [auto_attach : BOOLEAN, attach_vbox_manager : BOOLEAN]

\* VirtualBoxTabs.__init__ ends with a first refresh_tabs().
Init ==
    \E d \in Desktops, cfg \in SettingsValues :
        LET s == refresh_tabs([win |-> d, tabs |-> <<>>, pages |-> [h \in Hwnds |-> 0],
                               md |-> {}, settings |-> cfg, doomed |-> {}, calls |-> <<>>,
                               dying |-> {}, raises |-> FALSE, raised |-> FALSE,
                               is_picking_window |-> FALSE, picker_timer |-> FALSE,
                               custom_tab_names |-> <<>>],
                              FALSE)
        IN  /\ win = s.win
            /\ tabs = s.tabs
            /\ pages = s.pages
            /\ manually_detached_windows = s.md
            /\ doomed = s.doomed
            /\ settings = cfg
            /\ is_picking_window = FALSE
            /\ picker_timer = FALSE
            /\ pending = [h \in Hwnds |-> 0]
            /\ closed = FALSE
            /\ phase = "run"
            /\ pre = None
            /\ wm_found_windows = <<>>
            /\ custom_tab_names = <<>>

\* auto_refresh_timer.timeout, refresh_button.clicked, attach_all_button.clicked
RefreshTabs(sender) ==
    /\ Ready
    /\ Install(refresh_tabs(Cur, sender = "attach_all_button"))
    /\ UNCHANGED <<settings, is_picking_window, picker_timer, pending, closed, phase, pre,
                   wm_found_windows, custom_tab_names>>

\* detach_current_tab, the tab context menu
DetachTab(hwnd) ==
    /\ Ready
    /\ pages[hwnd] > 0 /\ hwnd \in DOMAIN tabs
    /\ Install(detach_tab(Cur, hwnd))
    /\ UNCHANGED <<settings, is_picking_window, picker_timer, pending, closed, phase, pre,
                   wm_found_windows, custom_tab_names>>

\* close_tab_by_index: terminated is what terminate_process_by_id returns.
CloseTabByIndex(hwnd, terminated) ==
    /\ Ready
    /\ pages[hwnd] > 0 /\ hwnd \in DOMAIN tabs
    /\ IF is_window(Cur, hwnd) /\ terminated
       THEN /\ Total(pending) < MaxPending
            /\ pending' = [pending EXCEPT ![hwnd] = @ + 1]
            /\ UNCHANGED <<win, tabs, pages, manually_detached_windows, doomed>>
       ELSE /\ Install(cleanup_closed_tab(Cur, hwnd))
            /\ UNCHANGED pending
    /\ UNCHANGED <<settings, is_picking_window, picker_timer, closed, phase, pre,
                   wm_found_windows, custom_tab_names>>

\* The single-shot timer of close_tab_by_index fires.
CleanupTimer(hwnd) ==
    /\ Ready
    /\ pending[hwnd] > 0
    /\ pending' = [pending EXCEPT ![hwnd] = @ - 1]
    /\ Install(cleanup_closed_tab(Cur, hwnd))
    /\ UNCHANGED <<settings, is_picking_window, picker_timer, closed, phase, pre,
                   wm_found_windows, custom_tab_names>>

CloseEvent ==
    /\ Ready
    /\ Install(closeEvent(Cur))
    /\ closed' = TRUE
    /\ UNCHANGED <<settings, is_picking_window, picker_timer, pending, phase, pre,
                   wm_found_windows, custom_tab_names>>

\* The event loop destroys the widgets given to deleteLater; DestroyWindow
\* takes the child windows of a destroyed container with it.
DeferredDelete ==
    /\ doomed # {}
    /\ win' = [h \in Hwnds |->
                 IF h \in doomed /\ win[h].alive /\ win[h].parent = Container(h)
                 THEN DeadWin ELSE win[h]]
    /\ doomed' = {}
    /\ UNCHANGED <<tabs, pages, manually_detached_windows, settings, is_picking_window,
                   picker_timer, pending, closed, phase, pre,
                   wm_found_windows, custom_tab_names>>

StartWindowPicker ==
    /\ Ready
    /\ is_picking_window' = TRUE
    /\ picker_timer' = TRUE
    /\ UNCHANGED <<win, tabs, pages, manually_detached_windows, settings, pending, doomed,
                   closed, phase, pre, wm_found_windows, custom_tab_names>>

\* A cancel that clears the flag and leaves the timer running.
cancel_picker_timer_running(s) == [s EXCEPT !.is_picking_window = FALSE]

cancel_picker(s) == [s EXCEPT !.is_picking_window = FALSE, !.picker_timer = FALSE]

\* keyPressEvent with Qt.Key_Escape
CancelPicker ==
    /\ Ready
    /\ is_picking_window
    /\ LET s == cancel_picker(Cur)
       IN  /\ Install(s)
           /\ is_picking_window' = s.is_picking_window
           /\ picker_timer' = s.picker_timer
    /\ UNCHANGED <<settings, pending, closed, phase, pre, wm_found_windows, custom_tab_names>>

\* What WindowFromPoint can return: nothing, the program's own window or one
\* of its containers, or a visible foreign window.
PointTargets ==
    {0, MainHwnd} \cup {Container(h) : h \in DOMAIN tabs}
        \cup {h \in Hwnds : win[h].alive /\ win[h].visible}

\* A tick that takes every poll for a click.
on_picker_tick_any(s, down, hwnd) ==
    LET s0 == cancel_picker(s) IN
    IF hwnd # 0
    THEN LET toplevel_hwnd == get_toplevel_parent(s0, hwnd)
         IN  IF toplevel_hwnd # MainHwnd
             THEN add_tab_for_window(s0, [hwnd |-> toplevel_hwnd, type |-> "Picked"], TRUE, FALSE)
             ELSE s0
    ELSE s0

\* A tick that embeds whatever top-level window the click resolves to.
on_picker_tick_own_window(s, down, hwnd) ==
    IF ~down THEN s
    ELSE LET s0 == cancel_picker(s) IN
         IF hwnd # 0
         THEN add_tab_for_window(s0, [hwnd |-> get_toplevel_parent(s0, hwnd), type |-> "Picked"],
                                 TRUE, FALSE)
         ELSE s0

\* _on_picker_tick; down is the left button's state, hwnd the window under
\* the cursor.
on_picker_tick(s, down, hwnd) ==
    IF ~down THEN s
    ELSE LET s0 == cancel_picker(s) IN
         IF hwnd # 0
         THEN LET toplevel_hwnd == get_toplevel_parent(s0, hwnd)
              IN  IF toplevel_hwnd # MainHwnd
                  THEN add_tab_for_window(s0, [hwnd |-> toplevel_hwnd, type |-> "Picked"],
                                          TRUE, FALSE)
                  ELSE s0
         ELSE s0

\* picker_timer.timeout with the cursor over hwnd; the tick reads the cursor
\* only when it finds the button down.
PickerTick(down, hwnd) ==
    /\ Ready
    /\ picker_timer
    /\ LET s == on_picker_tick(Cur, down, hwnd)
       IN  /\ Install(s)
           /\ is_picking_window' = s.is_picking_window
           /\ picker_timer' = s.picker_timer
    /\ UNCHANGED <<settings, pending, closed, phase, pre, wm_found_windows, custom_tab_names>>

get_selected_window_info(hwnd) == [hwnd |-> hwnd, type |-> "Listed"]

\* show_process_list_dialog, accepted with the row of hwnd selected.  The
\* dialog lists visible unparented windows; the window may be gone by the
\* time the row is accepted.
ProcessList(hwnd) ==
    /\ Ready
    /\ \/ ~win[hwnd].alive
       \/ win[hwnd].visible /\ win[hwnd].parent = NoParent
    /\ Install(add_tab_for_window(Cur, get_selected_window_info(hwnd), TRUE, FALSE))
    /\ UNCHANGED <<settings, is_picking_window, picker_timer, pending, closed, phase, pre,
                   wm_found_windows, custom_tab_names>>

\* show_settings_dialog, accepted
SettingsDialog(cfg) ==
    /\ Ready
    /\ cfg # settings
    /\ settings' = cfg
    /\ UNCHANGED <<win, tabs, pages, manually_detached_windows, is_picking_window,
                   picker_timer, pending, doomed, closed, phase, pre,
          wm_found_windows, custom_tab_names>>

\* The desktop: a foreign process destroys its window, or creates one that
\* gets a handle value no longer in use.
WindowDestroyed(hwnd) ==
    /\ ~closed
    /\ win[hwnd].alive
    /\ win' = [win EXCEPT ![hwnd] = DeadWin]
    /\ UNCHANGED <<tabs, pages, manually_detached_windows, settings, is_picking_window,
                   picker_timer, pending, doomed, closed, phase, pre,
          wm_found_windows, custom_tab_names>>

WindowCreated(hwnd, class) ==
    /\ ~closed
    /\ ~win[hwnd].alive
    /\ win' = [win EXCEPT ![hwnd] = NewWin(class)]
    /\ UNCHANGED <<tabs, pages, manually_detached_windows, settings, is_picking_window,
                   picker_timer, pending, doomed, closed, phase, pre,
          wm_found_windows, custom_tab_names>>

Next ==
    \/ \E sender \in {"timer", "refresh_button", "attach_all_button"} : RefreshTabs(sender)
    \/ \E hwnd \in Hwnds : DetachTab(hwnd)
    \/ \E hwnd \in Hwnds, terminated \in BOOLEAN : CloseTabByIndex(hwnd, terminated)
    \/ \E hwnd \in Hwnds : CleanupTimer(hwnd)
    \/ CloseEvent
    \/ DeferredDelete
    \/ StartWindowPicker
    \/ CancelPicker
    \/ \E down \in BOOLEAN :
           \E hwnd \in (IF down THEN PointTargets ELSE {0}) : PickerTick(down, hwnd)
    \/ \E hwnd \in Hwnds : ProcessList(hwnd)
    \/ \E cfg \in SettingsValues : SettingsDialog(cfg)
    \/ \E hwnd \in Hwnds : WindowDestroyed(hwnd)
    \/ \E hwnd \in Hwnds, class \in WinClasses : WindowCreated(hwnd, class)

Spec == Init /\ [][Next]_vars

----
\* The style round trip: one handle over one window of any style, attached
\* and detached by the VBoxTab methods with nothing else going on.

OtherHwnd == NumWin + NumWin + 2
StyleBits == FrameMask \cup WS_CHILD \cup {26, 31}
StyleInputs == SUBSET StyleBits
ParentInputs == {NoParent, OtherHwnd}
RestyleBits == {18, 26}

RtInit ==
    \E hwnd \in Hwnds, alive \in BOOLEAN, style \in StyleInputs, parent \in ParentInputs,
       visible \in BOOLEAN :
        /\ win = [h \in Hwnds |->
                    IF h = hwnd /\ alive
                    THEN [alive |-> TRUE, class |-> "none", style |-> style, parent |-> parent,
                          visible |-> visible, size |-> OwnSize]
                    ELSE DeadWin]
        /\ tabs = PutKey(<<>>, hwnd, VBoxTab([hwnd |-> hwnd, type |-> "Picked"]))
        /\ pages = [h \in Hwnds |-> IF h = hwnd THEN 1 ELSE 0]
        /\ manually_detached_windows = {}
        /\ settings = [auto_attach |-> TRUE, attach_vbox_manager |-> FALSE]
        /\ is_picking_window = FALSE
        /\ picker_timer = FALSE
        /\ pending = [h \in Hwnds |-> 0]
        /\ doomed = {}
        /\ closed = FALSE
        /\ phase = "fresh"
        /\ pre = None
        /\ wm_found_windows = <<>>
        /\ custom_tab_names = <<>>

RtFrame == UNCHANGED <<settings, is_picking_window, picker_timer, pending, closed,
                      wm_found_windows, custom_tab_names>>

RtAttach(hwnd) ==
    /\ phase = "fresh"
    /\ hwnd \in DOMAIN tabs
    /\ Install(attach_window(Cur, hwnd))
    /\ phase' = "attached"
    /\ pre' = Some([style |-> win[hwnd].style, parent |-> win[hwnd].parent])
    /\ RtFrame

RtDetach(hwnd) ==
    /\ phase \in {"fresh", "attached", "restyled"}
    /\ hwnd \in DOMAIN tabs
    /\ Install(detach_window(Cur, hwnd))
    /\ phase' = IF phase = "restyled" THEN "detached_restyled" ELSE "detached"
    /\ UNCHANGED pre
    /\ RtFrame

RtDetachAgain(hwnd) ==
    /\ phase = "detached"
    /\ hwnd \in DOMAIN tabs
    /\ Install(detach_window(Cur, hwnd))
    /\ phase' = "detached_again"
    /\ UNCHANGED pre
    /\ RtFrame

\* The owning process closes the window while it is embedded.
RtWindowDestroyed(hwnd) ==
    /\ phase = "attached"
    /\ win[hwnd].alive
    /\ win' = [win EXCEPT ![hwnd] = DeadWin]
    /\ UNCHANGED <<tabs, pages, manually_detached_windows, doomed, phase, pre>>
    /\ RtFrame

\* The owning process changes a style bit of its window while it is embedded
\* (restore_window_style reads the style again with GetWindowLong).
RtStyleChanged(hwnd, bit) ==
    /\ phase \in {"attached", "restyled"}
    /\ win[hwnd].alive
    /\ win' = [win EXCEPT ![hwnd].style =
                   IF bit \in @ THEN @ \ {bit} ELSE @ \cup {bit}]
    /\ phase' = "restyled"
    /\ UNCHANGED <<tabs, pages, manually_detached_windows, doomed, pre>>
    /\ RtFrame

\* The tab page is resized.
RtResize(hwnd, size) ==
    /\ hwnd \in DOMAIN tabs
    /\ size # tabs[hwnd].csize
    /\ Install(resizeEvent(Cur, hwnd, size))
    /\ UNCHANGED <<phase, pre>>
    /\ RtFrame

RtNext ==
    \/ \E hwnd \in Hwnds, bit \in RestyleBits : RtStyleChanged(hwnd, bit)
    \/ \E hwnd \in Hwnds, size \in HostSizes : RtResize(hwnd, size)
    \/ \E hwnd \in Hwnds : RtAttach(hwnd)
    \/ \E hwnd \in Hwnds : RtDetach(hwnd)
    \/ \E hwnd \in Hwnds : RtDetachAgain(hwnd)
    \/ \E hwnd \in Hwnds : RtWindowDestroyed(hwnd)

SpecStyle == RtInit /\ [][RtNext]_vars

----
\* The enumeration by title and process: WindowsWindowManager alone, over a
\* desktop whose windows carry their title text and the file name of their
\* process.  A text is the sequence of its pieces, cut so that each of the
\* substrings the code looks for is a run of whole pieces ("[ru:Running]"
\* stands for the Russian status marker).  proc is None when OpenProcess or
\* GetModuleFileNameEx raises.

Titles ==
    { <<>>,
      <<"VM-A", " ", "[Running]", " ", "-", " ", "Oracle VirtualBox">>,
      <<"VM-A", " ", "[ru:Running]", " ", "-", " ", "Oracle VirtualBox", " ", "7">>,
      <<"Oracle VirtualBox", " ", "Manager">>,
      <<"VM-B", " ", "[Running]">>,
      <<"notes">> }
Procs == { None, Some(<<"C:\\", "VMConnect.EXE">>), Some(<<"C:\\", "VirtualBoxVM.exe">>) }

Contains(text, pat) ==
    \E i \in 1..(Len(text) - Len(pat) + 1) : SubSeq(text, i, i + Len(pat) - 1) = pat

\* str.lower, piece by piece
lower(text) ==
    [i \in DOMAIN text |-> IF text[i] = "VMConnect.EXE" THEN "vmconnect.exe"
                           ELSE IF text[i] = "VirtualBoxVM.exe" THEN "virtualboxvm.exe"
                           ELSE text[i]]

\* _enum_windows_callback: found is self.found_windows, w the window visited.
enum_windows_callback(found, hwnd, w) ==
    IF ~w.visible THEN found
    ELSE IF w.title = <<>> THEN found
    ELSE LET window_title == w.title
             is_vbox_vm == (Contains(window_title, <<"[Running]">>)
                               \/ Contains(window_title, <<"[ru:Running]">>))
                           /\ Contains(window_title, <<" ", "Oracle VirtualBox">>)
             is_vbox_manager == Contains(window_title, <<"Oracle VirtualBox", " ">>)
         IN  IF is_vbox_vm THEN Append(found, [hwnd |-> hwnd, type |-> "VirtualBox"])
             ELSE IF is_vbox_manager
             THEN Append(found, [hwnd |-> hwnd, type |-> "VirtualBox Manager"])
             ELSE IF w.proc # None /\ Contains(lower(w.proc[1]), <<"vmconnect.exe">>)
                     /\ w.parent = NoParent
             THEN Append(found, [hwnd |-> hwnd, type |-> "Hyper-V"])
             ELSE found

\* win32gui.EnumWindows calls the callback once for each top-level window.
RECURSIVE EnumWindows(_, _, _)
EnumWindows(found, desktop, order) ==
    IF order = <<>> THEN found
    ELSE EnumWindows(enum_windows_callback(found, Head(order), desktop[Head(order)]),
                     desktop, Tail(order))

\* An enumeration that appends to the list of the call before.
find_embeddable_windows_kept(found, desktop) ==
    EnumWindows(found, desktop, SortedSeq({h \in Hwnds : TopLevel([win |-> desktop], h)}))

\* find_embeddable_windows with the titles read: found is self.found_windows
\* as the call before left it, the result is what the call leaves and returns.
find_embeddable_windows_by_title(found, desktop) ==
    EnumWindows(<<>>, desktop, SortedSeq({h \in Hwnds : TopLevel([win |-> desktop], h)}))

TitledWindows ==
    [alive : {TRUE}, visible : BOOLEAN, parent : ParentInputs, title : Titles, proc : Procs,
     style : {OverlappedStyle, BitOr(OverlappedStyle, WS_CHILD)}]
GoneWindow == [alive |-> FALSE, visible |-> FALSE, parent |-> NoParent, title |-> <<>>,
               proc |-> None, style |-> {}]

EnInit ==
    /\ win \in [Hwnds -> TitledWindows \cup {GoneWindow}]
    /\ wm_found_windows = <<>>
    /\ tabs = <<>>
    /\ pages = [h \in Hwnds |-> 0]
    /\ manually_detached_windows = {}
    /\ settings = [auto_attach |-> TRUE, attach_vbox_manager |-> FALSE]
    /\ is_picking_window = FALSE
    /\ picker_timer = FALSE
    /\ pending = [h \in Hwnds |-> 0]
    /\ doomed = {}
    /\ closed = FALSE
    /\ phase = "enumeration"
    /\ pre = None
    /\ custom_tab_names = <<>>

EnFrame == UNCHANGED <<tabs, pages, manually_detached_windows, settings, is_picking_window,
                       picker_timer, pending, doomed, closed, phase, pre, custom_tab_names>>

EnFindEmbeddableWindows ==
    /\ wm_found_windows' = find_embeddable_windows_by_title(wm_found_windows, win)
    /\ UNCHANGED win
    /\ EnFrame

\* The owning process changes the title of its window.
EnSetWindowText(hwnd, title) ==
    /\ win[hwnd].alive
    /\ title # win[hwnd].title
    /\ win' = [win EXCEPT ![hwnd].title = title]
    /\ UNCHANGED wm_found_windows
    /\ EnFrame

\* The owning process shows or hides its window.
EnShowWindow(hwnd) ==
    /\ win[hwnd].alive
    /\ win' = [win EXCEPT ![hwnd].visible = ~@]
    /\ UNCHANGED wm_found_windows
    /\ EnFrame

EnNext ==
    \/ EnFindEmbeddableWindows
    \/ \E hwnd \in Hwnds, title \in Titles : EnSetWindowText(hwnd, title)
    \/ \E hwnd \in Hwnds : EnShowWindow(hwnd)

SpecEnum == EnInit /\ [][EnNext]_vars

----
\* Renaming: one tab of VirtualBoxTabs with the texts of its window_info, over
\* the settings load_settings returns.  Here a window_info also carries
\* title, original_title and snapshot_name, a tab the text the tab bar shows
\* for it, and settings the keys the renaming reads.  A tab text is the
\* sequence of its pieces.

defaults == [auto_attach |-> TRUE, attach_vbox_manager |-> FALSE,
             custom_names |-> <<>>, use_custom_names |-> TRUE]

\* settings.json: absent, not valid JSON, or an object with some keys.
SettingsFiles ==
    { [exists |-> FALSE, valid |-> FALSE, data |-> <<>>],
      [exists |-> TRUE, valid |-> FALSE, data |-> <<>>],
      [exists |-> TRUE, valid |-> TRUE, data |-> <<>>],
      [exists |-> TRUE, valid |-> TRUE, data |-> [use_custom_names |-> FALSE]],
      [exists |-> TRUE, valid |-> TRUE, data |-> [custom_names_map |-> <<>>]] }

load_settings(file) ==
    IF ~file.exists THEN defaults
    ELSE IF ~file.valid THEN defaults
    ELSE [k \in DOMAIN file.data \cup DOMAIN defaults |->
             IF k \in DOMAIN file.data THEN file.data[k] ELSE defaults[k]]

update_tab_text(s, hwnd) ==
    LET info == s.tabs[hwnd].window_info
        base_title == info.title
        win_type == info.type
        snapshot_name == info.snapshot_name
        final_text == IF snapshot_name # None /\ win_type = "VirtualBox"
                      THEN <<base_title, " (", snapshot_name[1], ")">>
                      ELSE IF win_type \notin {"VirtualBox", "VirtualBox Manager"}
                      THEN <<"[", win_type, "] ", base_title>>
                      ELSE <<base_title>>
    IN  [s EXCEPT !.tabs[hwnd].text = final_text]

\* _rename_tab_at_index with what the input dialog returned.  A subscript
\* with a key the settings lack raises KeyError, and the statements after it
\* do not run.
rename_tab_at_index(s, hwnd, ok, new_name) ==
    IF ok /\ new_name # ""
    THEN LET original_title == s.tabs[hwnd].window_info.original_title
             s1 == [s EXCEPT !.tabs[hwnd].window_info.title = new_name,
                             !.custom_tab_names = PutKey(@, hwnd, new_name)]
         IN  IF "custom_names_map" \notin DOMAIN s1.settings
             THEN [s1 EXCEPT !.raised = TRUE]
             ELSE update_tab_text(
                      [s1 EXCEPT !.settings = PutKey(@, "custom_names_map",
                                     PutKey(s1.settings["custom_names_map"],
                                            original_title, new_name))],
                      hwnd)
    ELSE s

NewNames == {"", "mine", "other"}

RnInit ==
    \E hwnd \in Hwnds, file \in SettingsFiles, type \in WinClasses \cup {"Picked"},
       title \in {"VM-A", "VM-B"}, snapshot_name \in {None, Some("snap")} :
        LET window_info == [hwnd |-> hwnd, type |-> IF type = "none" THEN "Listed" ELSE type,
                            title |-> title, original_title |-> title,
                            snapshot_name |-> snapshot_name]
            tab == [window_info |-> window_info, orig_win_details |-> None,
                    attached |-> FALSE, detached_manually |-> FALSE, csize |-> HostSize,
                    text |-> <<"...">>]
            s == update_tab_text([tabs |-> PutKey(<<>>, hwnd, tab)], hwnd)
        IN  /\ win = [h \in Hwnds |-> IF h = hwnd THEN NewWin("none") ELSE DeadWin]
            /\ tabs = s.tabs
            /\ pages = [h \in Hwnds |-> IF h = hwnd THEN 1 ELSE 0]
            /\ manually_detached_windows = {}
            /\ settings = load_settings(file)
            /\ is_picking_window = FALSE
            /\ picker_timer = FALSE
            /\ pending = [h \in Hwnds |-> 0]
            /\ doomed = {}
            /\ closed = FALSE
            /\ phase = "named"
            /\ pre = None
            /\ wm_found_windows = <<>>
            /\ custom_tab_names = <<>>

\* rename_current_tab, the tab context menu
RnRename(hwnd, ok, new_name) ==
    /\ hwnd \in DOMAIN tabs
    /\ Install(rename_tab_at_index(Cur, hwnd, ok, new_name))
    /\ settings' = rename_tab_at_index(Cur, hwnd, ok, new_name).settings
    /\ custom_tab_names' = rename_tab_at_index(Cur, hwnd, ok, new_name).custom_tab_names
    /\ phase' = IF rename_tab_at_index(Cur, hwnd, ok, new_name).raised THEN "raised"
                ELSE IF ok /\ new_name # "" THEN "renamed" ELSE phase
    /\ UNCHANGED <<is_picking_window, picker_timer, pending, closed, pre, wm_found_windows>>

\* The tab is closed: cleanup_closed_tab forgets the session name with it.
RnCleanup(hwnd) ==
    /\ hwnd \in DOMAIN tabs
    /\ Install(cleanup_closed_tab(Cur, hwnd))
    /\ custom_tab_names' = cleanup_closed_tab(Cur, hwnd).custom_tab_names
    /\ UNCHANGED <<settings, is_picking_window, picker_timer, pending, closed, phase, pre,
                   wm_found_windows>>

RnNext ==
    \/ \E hwnd \in Hwnds, ok \in BOOLEAN, new_name \in NewNames : RnRename(hwnd, ok, new_name)
    \/ \E hwnd \in Hwnds : RnCleanup(hwnd)

SpecRename == RnInit /\ [][RnNext]_vars

----
\* Properties.

Found(s) == current_hwnds(find_embeddable_windows(s))

\* The handlers run as one step each, so what a pass does to a state is what
\* refresh_tabs yields on it; a pass can run in every state that is Ready.
AttachAll == RefreshTabs("attach_all_button")
AnyRefresh == RefreshTabs("timer") \/ RefreshTabs("refresh_button") \/ AttachAll

\* C1 (as stated): in every reachable state every tab handle is attached
\* exactly when it holds a saved style; a handle that was detached, also one
\* detached during closeEvent, holds none.
C1_AttachedIffSavedStyle ==
    \A h \in DOMAIN tabs : tabs[h].attached <=> tabs[h].orig_win_details # None

\* C2: a reconciliation pass triggered by the timer or the refresh button
\* leaves every manually detached window in the manually-detached set, never
\* attached and with its native window untouched, whether or not the
\* enumeration contains it.
C2_ManualDetachSuppressed ==
    Ready =>
        LET s == refresh_tabs(Cur, FALSE)
        IN  \A i \in manually_detached_windows :
                /\ i \in s.md
                /\ i \in DOMAIN s.tabs => ~s.tabs[i].attached
                /\ s.win[i] = win[i]

\* A manually detached window is alive, enumerated and of a category whose
\* automatic attach is on, and the timer pass about to run leaves it alone
\* where the attach-all pass would take it.
C2_Witness ==
    /\ Ready
    /\ \E i \in manually_detached_windows :
        /\ win[i].alive /\ i \in Found(Cur)
        /\ AutoAttachEnabled(Cur, win[i].class)
        /\ i \notin DOMAIN refresh_tabs(Cur, FALSE).tabs
        /\ i \in refresh_tabs(Cur, FALSE).md
        /\ i \in DOMAIN refresh_tabs(Cur, TRUE).tabs

\* C3 (as stated): one attach-all pass leaves every window that is in the
\* manually-detached set and still alive tracked, attached and out of the set.
C3_AttachAllReattachesLive ==
    Ready =>
        \A i \in manually_detached_windows :
            win[i].alive =>
                LET s == refresh_tabs(Cur, TRUE)
                IN  /\ i \in DOMAIN s.tabs /\ s.tabs[i].attached
                    /\ i \notin s.md

\* C3 (amended): one attach-all pass leaves every window that is in the
\* manually-detached set, still alive and returned by the enumeration
\* tracked, attached and out of the set.
C3_AttachAllReattachesFound ==
    Ready =>
        LET s == refresh_tabs(Cur, TRUE)
            found == Found(Cur)
        IN  \A i \in manually_detached_windows :
                (win[i].alive /\ i \in found) =>
                    /\ i \in DOMAIN s.tabs /\ s.tabs[i].attached
                    /\ i \notin s.md

\* A manually detached, live, enumerated window that the attach-all pass
\* about to run attaches.
C3_Witness ==
    /\ Ready
    /\ \E i \in manually_detached_windows :
        /\ win[i].alive /\ i \in Found(Cur)
        /\ refresh_tabs(Cur, TRUE).tabs[i].attached
        /\ i \notin refresh_tabs(Cur, TRUE).md
        /\ BitAnd(refresh_tabs(Cur, TRUE).win[i].style, WS_CHILD) # {}

\* C4: a reconciliation pass removes every tracked identity whose window is
\* dead and absent from the enumeration: at the end of the pass it is not in
\* the registry, has no tab page, and its widget is scheduled for deletion.
C4_GarbageCollectedInPass ==
    Ready =>
        \A is_attach_all_request \in BOOLEAN :
            LET s == refresh_tabs(Cur, is_attach_all_request)
                found == Found(Cur)
            IN  \A h \in DOMAIN tabs :
                    (~win[h].alive /\ h \notin found) =>
                        /\ h \notin DOMAIN s.tabs
                        /\ s.pages[h] = 0
                        /\ h \in s.doomed

\* A tracked, attached handle whose window is gone, before the pass that
\* collects it.
C4_Witness ==
    /\ Ready
    /\ \E h \in DOMAIN tabs :
        /\ ~win[h].alive /\ tabs[h].attached /\ pages[h] = 1
        /\ h \notin DOMAIN refresh_tabs(Cur, FALSE).tabs
        /\ refresh_tabs(Cur, FALSE).pages[h] = 0

\* C5: after closeEvent no tracked handle with a live window is attached; the
\* window has left the container, lost the child bit, has the saved frame
\* bits again and is shown.
C5_ShutdownDetachesAll ==
    closed =>
        \A h \in DOMAIN tabs :
            win[h].alive =>
                /\ ~tabs[h].attached
                /\ win[h].parent # Container(h)
                /\ BitAnd(win[h].style, WS_CHILD) = {}
                /\ win[h].visible
                /\ tabs[h].orig_win_details # None =>
                       /\ BitAnd(tabs[h].orig_win_details[1].style, FrameMask) \subseteq win[h].style
                       /\ win[h].parent = tabs[h].orig_win_details[1].parent

\* The application is closed and a handle that was attached has been detached
\* by closeEvent: it is still tracked, and its window has its frame back.
C5_Witness ==
    /\ closed
    /\ \E h \in DOMAIN tabs :
        /\ win[h].alive /\ tabs[h].detached_manually /\ ~tabs[h].attached
        /\ tabs[h].orig_win_details # None
        /\ win[h].style = tabs[h].orig_win_details[1].style
        /\ win[h].parent = NoParent

\* C6 (as stated): whenever a tab and its container are scheduled for
\* destruction, no live window is still a child of that container in
\* embedded style.
C6_NoLiveChildOfDoomedContainer ==
    \A h \in doomed :
        ~(win[h].alive /\ win[h].parent = Container(h) /\ BitAnd(win[h].style, WS_CHILD) # {})

\* C9: a step that creates a tab for an untracked identity with a live window
\* leaves the tab attached exactly when the caller forced it (process list,
\* picker), the trigger is attach-all, or automatic attach is on for the
\* window's category and the identity is not manually detached; a tab created
\* detached comes with no change to the native window.
C9_ShouldAttachOnCreate ==
    [][\A h \in Hwnds :
        (h \notin DOMAIN tabs /\ h \in DOMAIN tabs' /\ win[h].alive) =>
            LET forced == ProcessList(h) \/ \E t \in PointTargets : PickerTick(TRUE, t)
                auto == AnyRefresh /\ AutoAttachEnabled(Cur, win[h].class)
                            /\ h \notin manually_detached_windows
            IN  /\ tabs'[h].attached <=> (forced \/ AttachAll \/ auto)
                /\ ~tabs'[h].attached =>
                       /\ win'[h] = win[h]
                       /\ tabs'[h].orig_win_details = None]_vars

\* An untracked live window of a category without automatic attach: the timer
\* pass about to run creates its tab detached and leaves the window alone,
\* the attach-all pass would create it attached.
C9_Witness ==
    /\ Ready
    /\ \E h \in Hwnds :
        /\ h \notin DOMAIN tabs /\ win[h].alive /\ h \in Found(Cur)
        /\ ~AutoAttachEnabled(Cur, win[h].class)
        /\ h \in DOMAIN refresh_tabs(Cur, FALSE).tabs
        /\ ~refresh_tabs(Cur, FALSE).tabs[h].attached
        /\ refresh_tabs(Cur, FALSE).win[h] = win[h]
        /\ refresh_tabs(Cur, TRUE).tabs[h].attached

\* C10 (as stated): when attach_window takes a handle to the attached state,
\* it has issued a MoveWindow call with the container's width and height to
\* the embedded window by the time it returns.
C10_AttachResizes ==
    \A h \in DOMAIN tabs :
        (~tabs[h].attached /\ attach_window(Cur, h).tabs[h].attached) =>
            \E k \in DOMAIN attach_window(Cur, h).calls :
                attach_window(Cur, h).calls[k] = Call("MoveWindow", h, Rect(tabs[h].csize))

\* C7 (as stated): for a live window of any initial style and parent, attach
\* followed by detach leaves style and parent equal to their values before
\* the attach.
C7_RoundTripAnyStyle ==
    \A h \in DOMAIN tabs :
        (phase = "detached" /\ pre # None /\ win[h].alive) =>
            /\ win[h].style = pre[1].style
            /\ win[h].parent = pre[1].parent

\* C7 (amended): for a live window of any initial style whose child bit is
\* clear and any parent, attach followed by detach leaves style and parent
\* equal to their values before the attach.
C7_RoundTripTopLevelStyle ==
    \A h \in DOMAIN tabs :
        (phase = "detached" /\ pre # None /\ win[h].alive
            /\ BitAnd(pre[1].style, WS_CHILD) = {}) =>
            /\ win[h].style = pre[1].style
            /\ win[h].parent = pre[1].parent

\* A window with frame bits, another bit and a parent of its own has been
\* attached and detached again.
C7_Witness ==
    /\ phase = "detached" /\ pre # None
    /\ \E h \in DOMAIN tabs :
        /\ win[h].alive /\ tabs[h].detached_manually /\ ~tabs[h].attached
        /\ BitAnd(pre[1].style, WS_CHILD) = {}
        /\ WS_CAPTION \subseteq pre[1].style /\ 31 \in pre[1].style
        /\ pre[1].parent = OtherHwnd
        /\ win[h].style = pre[1].style

\* C8: a second detach_window in succession changes neither the handle nor
\* the native window and issues no native call.
C8_DetachIdempotent ==
    [][\A h \in Hwnds :
        RtDetachAgain(h) =>
            /\ tabs' = tabs
            /\ win' = win
            /\ detach_window(Cur, h).calls = <<>>]_vars

\* The second detach has run on a handle that the first one detached from a
\* live window.
C8_Witness ==
    /\ phase = "detached_again"
    /\ \E h \in DOMAIN tabs :
        /\ win[h].alive /\ tabs[h].detached_manually /\ ~tabs[h].attached
        /\ tabs[h].orig_win_details # None
        /\ win[h].parent # Container(h)

\* C11: a resize event on a handle that is attached with a live window issues
\* exactly one MoveWindow, at (0,0) with the container's new width and height,
\* and the window has that size afterwards; on a handle that is not attached
\* or whose window is dead it issues no native call and changes no window.
C11_ResizeEvent ==
    [][\A h \in Hwnds, size \in HostSizes :
        RtResize(h, size) =>
            IF tabs[h].attached /\ win[h].alive
            THEN /\ resizeEvent(Cur, h, size).calls = << Call("MoveWindow", h, Rect(size)) >>
                 /\ win'[h].size = size
            ELSE /\ resizeEvent(Cur, h, size).calls = <<>>
                 /\ win' = win]_vars

\* An attached handle over a live window whose container has been resized to
\* 1024x768, and the window with it.
C11_Witness ==
    /\ phase = "attached"
    /\ \E h \in DOMAIN tabs :
        /\ tabs[h].attached /\ win[h].alive
        /\ tabs[h].csize = BigSize /\ win[h].size = BigSize

\* C12: closing a tab removes it from the registry whatever termination did:
\* in the same step when the window is gone or terminate_process_by_id
\* returns false, and otherwise by the single-shot cleanup, which the step
\* schedules and which removes the tab when it fires, window alive or not.
C12_CloseAlwaysRemoves ==
    [][\A h \in Hwnds :
        \* close and cleanup steps on h are among those that change pending[h]
        \* or take h out of the registry
        (pending'[h] # pending[h] \/ (h \in DOMAIN tabs /\ h \notin DOMAIN tabs')) =>
            /\ \A terminated \in BOOLEAN :
                   CloseTabByIndex(h, terminated) =>
                       IF win[h].alive /\ terminated
                       THEN pending'[h] = pending[h] + 1
                       ELSE h \notin DOMAIN tabs' /\ pages'[h] = 0 /\ pending' = pending
            /\ CleanupTimer(h) => h \notin DOMAIN tabs' /\ pages'[h] = 0
            /\ pending'[h] < pending[h] => CleanupTimer(h)]_vars

\* Termination was reported successful, the cleanup is scheduled, and the
\* window is still alive and attached when the cleanup is about to fire.
C12_Witness ==
    /\ Ready
    /\ \E h \in DOMAIN tabs :
        /\ pending[h] > 0 /\ win[h].alive /\ tabs[h].attached
        /\ h \notin DOMAIN cleanup_closed_tab(Cur, h).tabs

\* C13 (as stated): a tracked tab that is detached over a live window is
\* brought to the attached state by an explicit attach action on it: an
\* attach-all pass that finds the window, a pick of the window by click, or
\* its choice in the process list.
C13_PlaceholderCanBeAttached ==
    Ready =>
        \A h \in DOMAIN tabs :
            (pages[h] > 0 /\ ~tabs[h].attached /\ win[h].alive /\ win[h].visible) =>
                \/ h \in Found(Cur) /\ refresh_tabs(Cur, TRUE).tabs[h].attached
                \/ on_picker_tick(Cur, TRUE, h).tabs[h].attached
                \/ add_tab_for_window(Cur, get_selected_window_info(h), TRUE, FALSE).tabs[h].attached

\* C14 (as stated): when windows are destroyed between attach_window's
\* liveness check and its native calls during a reconciliation pass, nothing
\* is raised to the caller of refresh_tabs, each handle whose attach failed is
\* left detached with no saved style, and every other identity comes out of
\* the pass as it does from the pass without the failure.
C14_LocalFailureContained ==
    Ready =>
        \A dying \in SUBSET {h \in Hwnds : win[h].alive}, raises \in BOOLEAN,
           is_attach_all_request \in BOOLEAN :
            LET s == refresh_tabs(WithFault(Cur, dying, raises), is_attach_all_request)
                ok == refresh_tabs(Cur, is_attach_all_request)
                failed == dying \ s.dying
            IN  /\ ~s.raised
                /\ \A h \in failed :
                       h \in DOMAIN s.tabs =>
                           ~s.tabs[h].attached /\ s.tabs[h].orig_win_details = None
                /\ \A h \in Hwnds \ failed :
                       /\ s.win[h] = ok.win[h]
                       /\ (h \in DOMAIN s.tabs) = (h \in DOMAIN ok.tabs)
                       /\ h \in DOMAIN s.tabs => s.tabs[h] = ok.tabs[h]

\* C15: attach_window on a handle whose window is no longer alive issues no
\* native call and changes no window, and the handle stays detached with no
\* saved style.
C15_AttachDeadWindow ==
    [][\A h \in Hwnds :
        (RtAttach(h) /\ ~win[h].alive) =>
            /\ attach_window(Cur, h).calls = <<>>
            /\ win' = win
            /\ ~tabs'[h].attached
            /\ tabs'[h].orig_win_details = None]_vars

\* attach_window has run on a fresh handle over a dead window.
C15_Witness ==
    /\ phase = "attached" /\ pre # None
    /\ \E h \in DOMAIN tabs :
        /\ ~win[h].alive /\ ~tabs[h].attached
        /\ tabs[h].orig_win_details = None

\* C16 (as stated): after a reconciliation pass every identity whose window
\* is dead and absent from the enumeration is absent from the tab registry
\* and from the manually-detached set.
C16_DeadIdentityForgotten ==
    Ready =>
        \A h \in Hwnds, is_attach_all_request \in BOOLEAN :
            (~win[h].alive /\ h \notin Found(Cur)) =>
                /\ h \notin DOMAIN refresh_tabs(Cur, is_attach_all_request).tabs
                /\ h \notin refresh_tabs(Cur, is_attach_all_request).md

\* C17: a reconciliation pass that is not an attach-all leaves every identity
\* that is enumerated and already tracked as it was: the handle with its
\* attach state, saved style and recorded window_info (category and title),
\* its membership in the manually-detached set, and its native window.
C17_TrackedLeftUntouched ==
    Ready =>
        LET s == refresh_tabs(Cur, FALSE)
            found == Found(Cur)
        IN  \A h \in DOMAIN tabs :
                h \in found =>
                    /\ h \in DOMAIN s.tabs /\ s.tabs[h] = tabs[h]
                    /\ (h \in s.md) = (h \in manually_detached_windows)
                    /\ s.win[h] = win[h]
                    /\ s.pages[h] = pages[h]

\* A tracked identity is enumerated with a category other than the one its
\* tab recorded, and the pass about to run keeps the recorded one.
C17_Witness ==
    /\ Ready
    /\ \E h \in DOMAIN tabs :
        /\ h \in Found(Cur)
        /\ tabs[h].window_info.type # win[h].class
        /\ refresh_tabs(Cur, FALSE).tabs[h].window_info.type = tabs[h].window_info.type

\* C18: an automatic pass run again right after an automatic pass, with no
\* change by a foreign process or the user in between, leaves the registry,
\* every handle, the tab pages, the manually-detached set and the native
\* windows as the first pass left them, and issues no native call.
C18_PassIdempotent ==
    Ready =>
        LET s1 == refresh_tabs(Cur, FALSE)
            s2 == refresh_tabs([s1 EXCEPT !.calls = <<>>], FALSE)
        IN  /\ s2.tabs = s1.tabs
            /\ s2.md = s1.md
            /\ s2.pages = s1.pages
            /\ s2.win = s1.win
            /\ s2.calls = <<>>

\* The first of two passes about to run attaches a window that is not yet
\* tracked; the second finds nothing left to do.
C18_Witness ==
    /\ Ready
    /\ \E h \in Hwnds :
        /\ h \notin DOMAIN tabs /\ win[h].alive
        /\ h \in DOMAIN refresh_tabs(Cur, FALSE).tabs
        /\ refresh_tabs(Cur, FALSE).tabs[h].attached
        /\ refresh_tabs(Cur, FALSE).calls # <<>>
        /\ refresh_tabs(refresh_tabs(Cur, FALSE), FALSE).tabs[h].attached

\* C19: cancelling a pick with Escape changes neither the registry, a handle,
\* the tab pages, the manually-detached set nor a native window, and leaves
\* the picker timer stopped and the picking flag clear; with the timer
\* stopped no picker tick can run, so none of the cancelled pick adds a tab.
C19_CancelledPickMutatesNothing ==
    /\ (Ready /\ is_picking_window) =>
           /\ cancel_picker(Cur).tabs = tabs /\ cancel_picker(Cur).pages = pages
           /\ cancel_picker(Cur).win = win /\ cancel_picker(Cur).calls = <<>>
           /\ cancel_picker(Cur).md = manually_detached_windows
           /\ ~cancel_picker(Cur).picker_timer /\ ~cancel_picker(Cur).is_picking_window
    /\ ~picker_timer => ~ENABLED (\E down \in BOOLEAN, t \in PointTargets : PickerTick(down, t))
    /\ is_picking_window = picker_timer

\* A pick is under way over a desktop with a live untracked window that a
\* click would embed.
C19_Witness ==
    /\ Ready /\ is_picking_window /\ picker_timer
    /\ \E h \in Hwnds :
        /\ win[h].alive /\ h \notin DOMAIN tabs
        /\ h \in DOMAIN on_picker_tick(Cur, TRUE, h).tabs

\* C20: a picker tick that sees no click changes nothing; a tick that sees
\* the button down stops the picker timer, clears the picking flag and adds
\* at most one tab; and a tick runs only while the timer is started.
C20_PickSelfTerminates ==
    /\ (Ready /\ picker_timer) =>
           \A t \in PointTargets :
               LET s == on_picker_tick(Cur, TRUE, t)
               IN  /\ on_picker_tick(Cur, FALSE, t) = Cur
                   /\ ~s.picker_timer
                   /\ ~s.is_picking_window
                   /\ Cardinality(DOMAIN s.tabs) <= Cardinality(DOMAIN tabs) + 1
                   /\ Total(s.pages) <= Total(pages) + 1
    /\ ~picker_timer => \A t \in PointTargets : ~ENABLED PickerTick(TRUE, t)

\* A pick is under way and the cursor is over a live untracked window: the
\* tick that sees the click embeds it, the tick that sees none does nothing.
C20_Witness ==
    /\ Ready /\ is_picking_window /\ picker_timer
    /\ \E h \in Hwnds :
        /\ win[h].alive /\ h \notin DOMAIN tabs /\ h \in PointTargets
        /\ h \in DOMAIN on_picker_tick(Cur, TRUE, h).tabs
        /\ on_picker_tick(Cur, TRUE, h).tabs[h].attached
        /\ h \notin DOMAIN on_picker_tick(Cur, FALSE, h).tabs

\* C21 (as stated): a detach of an attached handle over a live window leaves
\* each of the five frame bits equal to its value in the saved style, whatever
\* style the window has when the detach runs; the child bit is clear, every
\* other bit is as it was when the detach ran, the parent is the saved parent
\* and the window is shown.
C21_FrameBitsVerbatim ==
    [][\A h \in Hwnds :
        (RtDetach(h) /\ tabs[h].attached /\ win[h].alive) =>
            /\ BitAnd(win'[h].style, FrameMask)
                   = BitAnd(tabs[h].orig_win_details[1].style, FrameMask)
            /\ BitAnd(win'[h].style, WS_CHILD) = {}
            /\ BitAnd(win'[h].style, BitNot(BitOr(FrameMask, WS_CHILD)))
                   = BitAnd(win[h].style, BitNot(BitOr(FrameMask, WS_CHILD)))
            /\ win'[h].parent = tabs[h].orig_win_details[1].parent
            /\ win'[h].visible]_vars

\* C22: while a handle is attached its saved style is the style and parent
\* the window had before the attach, whatever has happened to the window
\* since; and attach_window on the attached handle issues no native call and
\* changes neither the handle, its saved style included, nor a window.
C22_SavedStyleCapturedOnce ==
    \A h \in DOMAIN tabs :
        tabs[h].attached =>
            /\ pre # None /\ tabs[h].orig_win_details = pre
            /\ attach_window(Cur, h).calls = <<>>
            /\ attach_window(Cur, h).tabs = tabs
            /\ attach_window(Cur, h).win = win

\* An attached handle over a live window that had a caption before the
\* attach and whose owning process has changed its style since: the saved
\* style is neither the stripped style nor the current one.
C22_Witness ==
    /\ phase = "restyled" /\ pre # None
    /\ \E h \in DOMAIN tabs :
        /\ tabs[h].attached /\ win[h].alive
        /\ WS_CAPTION \subseteq pre[1].style
        /\ tabs[h].orig_win_details[1].style # win[h].style
        /\ tabs[h].orig_win_details[1].style
               # BitOr(BitAnd(pre[1].style, BitNot(FrameMask)), WS_CHILD)
        /\ 18 \in win[h].style

\* C23: a reconciliation pass of either kind removes a tracked identity only
\* when its window is not alive and the enumeration lacks it; a tracked
\* identity whose window is alive stays tracked with its tab page through the
\* pass, also when the enumeration lacks it.
C23_LiveTabNeverCollected ==
    Ready =>
        \A is_attach_all_request \in BOOLEAN :
            LET s == refresh_tabs(Cur, is_attach_all_request)
                found == Found(Cur)
            IN  \A h \in DOMAIN tabs :
                    /\ h \notin DOMAIN s.tabs => (~win[h].alive /\ h \notin found)
                    /\ win[h].alive =>
                           /\ h \in DOMAIN s.tabs
                           /\ s.pages[h] = pages[h]
                           /\ h \notin s.doomed

\* A tracked window is embedded, so alive and a child window that the
\* enumeration lacks, and the pass about to run keeps its tab attached.
C23_Witness ==
    /\ Ready
    /\ \E h \in DOMAIN tabs :
        /\ win[h].alive /\ tabs[h].attached /\ win[h].parent = Container(h)
        /\ h \notin Found(Cur)
        /\ h \in DOMAIN refresh_tabs(Cur, FALSE).tabs
        /\ refresh_tabs(Cur, FALSE).tabs[h].attached
        /\ refresh_tabs(Cur, FALSE).pages[h] = 1

\* C24 (as stated): after a pass triggered by the timer or the refresh button
\* every enumerated identity that was untracked and is not manually detached
\* has a tab, of whatever category it is: attached when automatic attach is
\* on for the category, a detached placeholder when it is off.
C24_EveryFoundGetsTab ==
    Ready =>
        \A h \in Found(Cur) :
            (h \notin DOMAIN tabs /\ h \notin manually_detached_windows) =>
                LET s == refresh_tabs(Cur, FALSE)
                IN  /\ h \in DOMAIN s.tabs
                    /\ s.pages[h] = 1
                    /\ s.tabs[h].attached <=> AutoAttachEnabled(Cur, win[h].class)

\* C25: in every reachable state each tracked identity has exactly one tab
\* page and no other identity has one; and adding a window that is already
\* tracked, by the process list, by a pick or by a pass, creates no second tab
\* and changes neither the registry, a handle, the pages, the
\* manually-detached set nor a window.
C25_OneTabPerIdentity ==
    /\ \A h \in Hwnds : pages[h] = IF h \in DOMAIN tabs THEN 1 ELSE 0
    /\ Ready =>
           LET timed == refresh_tabs(Cur, FALSE)
               all == refresh_tabs(Cur, TRUE)
               found == Found(Cur)
           IN  \A h \in DOMAIN tabs :
                   /\ \A force_attach \in BOOLEAN, type \in {"Listed", "Picked"} :
                          add_tab_for_window(Cur, [hwnd |-> h, type |-> type], force_attach, FALSE)
                              = Cur
                   /\ (picker_timer /\ h \in PointTargets) =>
                          LET picked == on_picker_tick(Cur, TRUE, h)
                          IN  /\ picked.tabs = tabs
                              /\ picked.pages = pages
                              /\ picked.win = win
                   /\ h \in found =>
                          /\ timed.tabs[h] = tabs[h]
                          /\ timed.pages[h] = 1
                          /\ all.pages[h] = 1

\* A pick is under way and the cursor is over a live window that has a
\* detached placeholder tab: the click that would embed an untracked window
\* leaves this one with its one tab, still detached.
C25_Witness ==
    /\ Ready /\ picker_timer
    /\ \E h \in DOMAIN tabs :
        /\ win[h].alive /\ ~tabs[h].attached /\ h \in PointTargets /\ pages[h] = 1
        /\ get_toplevel_parent(Cur, h) = h
        /\ on_picker_tick(Cur, TRUE, h).pages[h] = 1
        /\ ~on_picker_tick(Cur, TRUE, h).tabs[h].attached

\* C26: a call of find_embeddable_windows returns what it would return had
\* no call been made before; it returns no window twice; it returns a
\* top-level window exactly when the window is visible, has a title and
\* matches a rule, with the category of the first rule it matches in the order
\* running-VM title, manager title, companion process without parent; hidden
\* and untitled windows and windows matching no rule are not returned.
C26_EnumerationFromScratch ==
    LET r == find_embeddable_windows_by_title(wm_found_windows, win)
        is_vm(w) == (Contains(w.title, <<"[Running]">>) \/ Contains(w.title, <<"[ru:Running]">>))
                    /\ Contains(w.title, <<" ", "Oracle VirtualBox">>)
        is_manager(w) == Contains(w.title, <<"Oracle VirtualBox", " ">>)
        is_companion(w) == w.proc # None /\ Contains(lower(w.proc[1]), <<"vmconnect.exe">>)
                           /\ w.parent = NoParent
    IN  /\ r = find_embeddable_windows_by_title(<<>>, win)
        /\ \A i, j \in DOMAIN r : r[i].hwnd = r[j].hwnd => i = j
        /\ \A i \in DOMAIN r :
               LET w == win[r[i].hwnd]
               IN  /\ w.alive /\ w.visible /\ w.title # <<>>
                   /\ is_vm(w) => r[i].type = "VirtualBox"
                   /\ (~is_vm(w) /\ is_manager(w)) => r[i].type = "VirtualBox Manager"
                   /\ (~is_vm(w) /\ ~is_manager(w)) => (is_companion(w) /\ r[i].type = "Hyper-V")
        /\ \A h \in Hwnds :
               (TopLevel([win |-> win], h) /\ win[h].visible /\ win[h].title # <<>>
                   /\ (is_vm(win[h]) \/ is_manager(win[h]) \/ is_companion(win[h])))
                   => \E i \in DOMAIN r : r[i].hwnd = h

\* The list of the call before holds a window as a manager window; its title
\* has since become one that matches the running-VM rule and the manager rule,
\* and the call about to be made returns it once, as a running VM.
C26_Witness ==
    \E h \in Hwnds :
        /\ wm_found_windows # <<>>
        /\ \E i \in DOMAIN wm_found_windows :
               wm_found_windows[i] = [hwnd |-> h, type |-> "VirtualBox Manager"]
        /\ Contains(win[h].title, <<"[ru:Running]">>)
        /\ Contains(win[h].title, <<"Oracle VirtualBox", " ">>)
        /\ \E i \in DOMAIN find_embeddable_windows_by_title(wm_found_windows, win) :
               find_embeddable_windows_by_title(wm_found_windows, win)[i]
                   = [hwnd |-> h, type |-> "VirtualBox"]

\* C27: in every reachable state no identity is both tracked and in the
\* manually-detached set; a manual detach leaves the identity in the set and
\* untracked, and an add for a manually detached identity, by the process
\* list, a pick or an attach-all pass, leaves it tracked and out of the set.
C27_TrackedNotManuallyDetached ==
    /\ DOMAIN tabs \cap manually_detached_windows = {}
    /\ Ready =>
           /\ \A h \in DOMAIN tabs :
                  LET s == detach_tab(Cur, h)
                  IN  h \in s.md /\ h \notin DOMAIN s.tabs
           /\ LET all == refresh_tabs(Cur, TRUE) IN
              \A h \in manually_detached_windows :
                  LET listed == add_tab_for_window(Cur, get_selected_window_info(h), TRUE, FALSE)
                      picked == on_picker_tick(Cur, TRUE, h)
                  IN  /\ h \in DOMAIN listed.tabs /\ h \notin listed.md
                      /\ (h \in DOMAIN picked.tabs) = (h \notin picked.md)
                      /\ (h \in DOMAIN all.tabs) = (h \notin all.md)

\* A manually detached live window that the process list is about to add
\* again, and that the timer pass leaves in the set.
C27_Witness ==
    /\ Ready
    /\ \E h \in manually_detached_windows :
        /\ win[h].alive /\ h \notin DOMAIN tabs /\ h \in Found(Cur)
        /\ add_tab_for_window(Cur, get_selected_window_info(h), TRUE, FALSE).tabs[h].attached
        /\ h \notin add_tab_for_window(Cur, get_selected_window_info(h), TRUE, FALSE).md
        /\ h \in refresh_tabs(Cur, FALSE).md

\* The session names a rename can have left: any of the windows named.
SessionNames == UNION {[S -> {"renamed"}] : S \in SUBSET Hwnds}

\* C28: while a deferred cleanup of close_tab_by_index is outstanding for an
\* identity, whatever passes, detaches or closes have run since it was
\* scheduled, the cleanup that fires removes the identity's one tab and page
\* if it is tracked, leaving the other tabs alone, and changes nothing at all
\* (registry, pages, manually-detached set, session names, windows) and
\* raises nothing if it is not tracked; no identity ever has a negative
\* number of pages or more than one.
C28_DeferredCleanupOnce ==
    /\ \A h \in Hwnds : pages[h] \in {0, 1}
    /\ Ready =>
           \A h \in Hwnds, names \in SessionNames :
               pending[h] > 0 =>
                   LET s0 == WithNames(Cur, names)
                       s == cleanup_closed_tab(s0, h)
                   IN  IF h \in DOMAIN tabs
                       THEN /\ DOMAIN s.tabs = DOMAIN tabs \ {h}
                            /\ \A k \in DOMAIN s.tabs : s.tabs[k] = tabs[k] /\ s.pages[k] = pages[k]
                            /\ s.pages[h] = 0
                            /\ ~s.raised
                       ELSE s = s0

\* The cleanup is outstanding for a live window whose tab the user has
\* detached since the close: the identity is untracked, manually detached and
\* carries a session name when the timer is about to fire.
C28_Witness ==
    /\ Ready
    /\ \E h \in manually_detached_windows :
        /\ pending[h] > 0 /\ win[h].alive /\ h \notin DOMAIN tabs
        /\ h \in cleanup_closed_tab(WithNames(Cur, [k \in {h} |-> "renamed"]), h).md
        /\ h \in DOMAIN cleanup_closed_tab(WithNames(Cur, [k \in {h} |-> "renamed"]), h).custom_tab_names

\* C29: a click of the picker on the main window, on a tab's container or on
\* a window embedded in one, each of which resolves to the main window by the
\* parent chain, adds no tab, changes no handle, page, window or
\* manually-detached entry and issues no native call; and the main window is
\* never a key of the registry.
C29_PickNeverEmbedsSelf ==
    /\ MainHwnd \notin DOMAIN tabs
    /\ (Ready /\ picker_timer) =>
           \A t \in PointTargets :
               get_toplevel_parent(Cur, t) = MainHwnd =>
                   LET s == on_picker_tick(Cur, TRUE, t)
                   IN  /\ s.tabs = tabs
                       /\ s.pages = pages
                       /\ s.win = win
                       /\ s.md = manually_detached_windows
                       /\ s.calls = <<>>

\* A pick is under way and the cursor is over a window that is embedded in
\* its tab's container: the parent chain leads from the window over the
\* container to the main window.
C29_Witness ==
    /\ Ready /\ picker_timer
    /\ \E h \in DOMAIN tabs :
        /\ h \in PointTargets /\ tabs[h].attached
        /\ GetParent(Cur, h) = Container(h)
        /\ get_toplevel_parent(Cur, h) = MainHwnd
        /\ on_picker_tick(Cur, TRUE, h).tabs = tabs
        /\ ~on_picker_tick(Cur, TRUE, h).picker_timer

\* C30 (as stated): a rename of a tab that the dialog confirms with a
\* non-empty name, under any settings load_settings returns, raises nothing
\* and leaves the tab's title, the session name of its identity and the text
\* the tab bar shows all equal to the new name.
C30_RenameCompletes ==
    [][\A h \in Hwnds, new_name \in NewNames \ {""} :
        RnRename(h, TRUE, new_name) =>
            /\ phase' # "raised"
            /\ tabs'[h].window_info.title = new_name
            /\ h \in DOMAIN custom_tab_names' /\ custom_tab_names'[h] = new_name
            /\ tabs'[h].text = <<new_name>>]_vars

====
